---- MODULE Spec2Model ----
(***************************************************************************)
(* A model of backend/python/pdf_parser/parser.py: the master schedule     *)
(* parser (ClassInfo and MasterScheduleParser).                            *)
(*                                                                         *)
(* Representation.                                                         *)
(*   - A Python str is a sequence of one-character strings, so that the    *)
(*     regular expressions, strip(), split() and lower() of the source are *)
(*     computed character by character.                                    *)
(*   - A coordinate (x0, top, a calibrated column) is an integer number of *)
(*     twelfths of a PDF unit (Unit twelfths = 1 unit).  The calibration   *)
(*     divides differences of word positions by 1..4 only, so with word    *)
(*     positions at whole units every quotient of the source is exact in   *)
(*     twelfths (Div has no value otherwise).  Rounding of Python floats   *)
(*     is not modelled.                                                    *)
(*   - A ClassInfo object lives in the heap objs; current_class and the    *)
(*     values of the dict classes are references (indices) into it.        *)
(*   - A Python dict is a sequence of [key, ref] entries in insertion      *)
(*     order; assigning to an existing key keeps the key's position.       *)
(*   - pages[p] is the list of words of page p.  extract_words is called    *)
(*     twice on the first page (parser.py:253 and :322, with x_tolerance 3 *)
(*     and 5); both calls are taken to yield the same words.  The font     *)
(*     size asked for at parser.py:257 is never read and is left out.      *)
(*   - A raised exception is a value: operators return a record with a     *)
(*     field raised ("none", "ValidationError", "IndexError").             *)
(***************************************************************************)
EXTENDS Integers, Sequences, FiniteSets, TLC

VARIABLES
    pages,          \* the document: a sequence of pages, each the words extract_words yields
    pc,             \* position of parse(): page_start, lines, validate, done, failed; record (add_conflict driver)
    pageNo,         \* 1-based index of the page of the loop at parser.py:204
    DAY_COLUMNS,    \* self.DAY_COLUMNS, <<>> until calibrated
    lines,          \* _process_page: the lines of the current page
    lineNo,         \* _process_page: 1-based index of the next line of the loop at parser.py:335
    current_class,  \* _process_page: reference to the current ClassInfo, 0 for None
    objs,           \* heap of ClassInfo objects in creation order
    classes,        \* self.classes: dict class_id -> ClassInfo reference
    result,         \* outcome of parse(): running, returned, ValidationError, IndexError
    calls           \* the (day, period) pairs passed to add_conflict of objs[1] by the add_conflict driver

vars == <<pages, pc, pageNo, DAY_COLUMNS, lines, lineNo, current_class, objs, classes, result, calls>>

----------------------------------------------------------------------------
(* Units and program constants *)

Unit == 3 * 4

\* parser.py:276 and :310, the fixed fallback positions
FALLBACK_COLUMNS == <<150 * Unit, 250 * Unit, 350 * Unit, 450 * Unit, 550 * Unit>>
\* parser.py:298, the assumed leftmost position
LEFTMOST == 150
\* parser.py:363, tolerance for the same line
LINE_TOLERANCE == 5
\* parser.py:448, tolerance for a day column
COLUMN_TOLERANCE == 100
\* parser.py:152, maximum number of conflicts per day
MAX_PER_DAY == 8

DAYS == <<"Monday", "Tuesday", "Wednesday", "Thursday", "Friday">>
VALID_GRADES == {"Pre-K", "K", "1", "2", "3", "4", "5", "multiple"}
VALID_PERIODS == 1..8

----------------------------------------------------------------------------
(* Strings *)

Digits == {"0", "1", "2", "3", "4", "5", "6", "7", "8", "9"}
Whitespace == {" ", "\t", "\n"}

\* int() of one decimal digit
DigitValue(c) ==
    CASE c = "0" -> 0 [] c = "1" -> 1 [] c = "2" -> 2 [] c = "3" -> 3 [] c = "4" -> 4
      [] c = "5" -> 5 [] c = "6" -> 6 [] c = "7" -> 7 [] c = "8" -> 8 [] c = "9" -> 9

\* str.lower() of one character, over the upper-case letters the model's texts use
LowerChar(c) ==
    CASE c = "A" -> "a" [] c = "F" -> "f" [] c = "K" -> "k" [] c = "L" -> "l"
      [] c = "M" -> "m" [] c = "P" -> "p" [] c = "R" -> "r" [] c = "T" -> "t"
      [] c = "W" -> "w" [] OTHER -> c

Lower(s) == [i \in 1..Len(s) |-> LowerChar(s[i])]

\* str.startswith
StartsWith(s, p) == Len(s) >= Len(p) /\ SubSeq(s, 1, Len(p)) = p

\* the Python test  sub in s
Contains(s, sub) ==
    \E i \in 1..(Len(s) - Len(sub) + 1) : SubSeq(s, i, i + Len(sub) - 1) = sub

RECURSIVE LStrip(_)
LStrip(s) == IF s # <<>> /\ Head(s) \in Whitespace THEN LStrip(Tail(s)) ELSE s

RECURSIVE RStrip(_)
RStrip(s) ==
    IF s # <<>> /\ s[Len(s)] \in Whitespace THEN RStrip(SubSeq(s, 1, Len(s) - 1)) ELSE s

\* str.strip()
Strip(s) == RStrip(LStrip(s))

\* str.split(sep) for a one-character separator
RECURSIVE SplitFrom(_, _, _)
SplitFrom(s, sep, cur) ==
    IF s = <<>> THEN <<cur>>
    ELSE IF Head(s) = sep THEN <<cur>> \o SplitFrom(Tail(s), sep, <<>>)
    ELSE SplitFrom(Tail(s), sep, Append(cur, Head(s)))

Split(s, sep) == SplitFrom(s, sep, <<>>)

\* the regular expression anchor $ after n matched characters: the end of the
\* string, or just before one trailing newline
AtEnd(s, n) == Len(s) = n \/ (Len(s) = n + 1 /\ s[n + 1] = "\n")

AllDigits(s, from, to) == \A i \in from..to : s[i] \in Digits

\* r'^PK\d{3}$'
MatchPreK(s) == Len(s) >= 5 /\ s[1] = "P" /\ s[2] = "K" /\ AllDigits(s, 3, 5) /\ AtEnd(s, 5)
\* r'^K-\d{3}$'
MatchKinder(s) == Len(s) >= 5 /\ s[1] = "K" /\ s[2] = "-" /\ AllDigits(s, 3, 5) /\ AtEnd(s, 5)
\* r'^\d-\d{3}$'
MatchGradeRoom(s) ==
    Len(s) >= 5 /\ s[1] \in Digits /\ s[2] = "-" /\ AllDigits(s, 3, 5) /\ AtEnd(s, 5)
\* r'^[K\d]/[K\d]/[K\d]-\d{3}$'
MatchMultiple(s) ==
    /\ Len(s) >= 9
    /\ \A i \in {1, 3, 5} : s[i] \in Digits \cup {"K"}
    /\ s[2] = "/" /\ s[4] = "/" /\ s[6] = "-"
    /\ AllDigits(s, 7, 9) /\ AtEnd(s, 9)

\* any(re.match(pattern, class_id) for pattern in VALID_CLASS_PATTERNS)
MatchesClassPattern(s) == MatchPreK(s) \/ MatchKinder(s) \/ MatchGradeRoom(s) \/ MatchMultiple(s)

\* re.match(r'^\d+$', s)
MatchAllDigits(s) ==
    \E n \in 1..Len(s) : AllDigits(s, 1, n) /\ AtEnd(s, n)

\* re.search(r'([1-8])', s): the position of the first character in 1..8, 0 for no match
RECURSIVE PeriodSearch(_, _)
PeriodSearch(s, i) ==
    IF i > Len(s) THEN 0
    ELSE IF s[i] \in Digits /\ DigitValue(s[i]) \in 1..8 THEN i
    ELSE PeriodSearch(s, i + 1)

----------------------------------------------------------------------------
(* ClassInfo *)

NoConflicts == [d \in 1..Len(DAYS) |-> <<>>]

DayIndex(day) == CHOOSE i \in 1..Len(DAYS) : DAYS[i] = day

\* list.sort() of a list of integers: insertion sort
RECURSIVE InsertSorted(_, _)
InsertSorted(s, x) ==
    IF s = <<>> THEN <<x>>
    ELSE IF x < Head(s) THEN <<x>> \o s
    ELSE <<Head(s)>> \o InsertSorted(Tail(s), x)

RECURSIVE Sort(_)
Sort(s) == IF s = <<>> THEN <<>> ELSE InsertSorted(Sort(SubSeq(s, 1, Len(s) - 1)), s[Len(s)])

SeqElems(s) == {s[i] : i \in 1..Len(s)}

\* ClassInfo.validate_class_id
validate_class_id(class_id) ==
    IF MatchesClassPattern(class_id) THEN "none" ELSE "ValidationError"

\* ClassInfo.validate_grade_level
validate_grade_level(grade_level) ==
    IF grade_level \in VALID_GRADES THEN "none" ELSE "ValidationError"

\* ClassInfo.validate_period
validate_period(period) ==
    IF period \in VALID_PERIODS THEN "none" ELSE "ValidationError"

\* ClassInfo.__init__
NewClassInfo(class_id, grade_level) ==
    IF validate_class_id(class_id) # "none" \/ validate_grade_level(grade_level) # "none"
    THEN [raised |-> "ValidationError"]
    ELSE [raised |-> "none",
          obj |-> [class_id |-> class_id, grade_level |-> grade_level,
                   conflicts |-> NoConflicts, all_conflicts |-> {}]]

\* add_conflict with the sort of parser.py:104 left out
add_conflict_unsorted(obj, day, period) ==
    IF validate_period(period) # "none" THEN [raised |-> "ValidationError", obj |-> obj]
    ELSE IF <<day, period>> \in obj.all_conflicts THEN [raised |-> "none", obj |-> obj]
    ELSE LET d == DayIndex(day)
             seen == [obj EXCEPT !.all_conflicts = @ \cup {<<day, period>>}]
         IN  [raised |-> "none",
              obj |-> IF period \notin SeqElems(obj.conflicts[d])
                      THEN [seen EXCEPT !.conflicts[d] = Append(@, period)]
                      ELSE seen]

\* ClassInfo.add_conflict
add_conflict(obj, day, period) ==
    IF validate_period(period) # "none" THEN [raised |-> "ValidationError", obj |-> obj]
    ELSE IF <<day, period>> \in obj.all_conflicts THEN [raised |-> "none", obj |-> obj]
    ELSE LET d == DayIndex(day)
             seen == [obj EXCEPT !.all_conflicts = @ \cup {<<day, period>>}]
         IN  [raised |-> "none",
              obj |-> IF period \notin SeqElems(obj.conflicts[d])
                      THEN [seen EXCEPT !.conflicts[d] = Sort(Append(@, period))]
                      ELSE seen]

\* class_id.split('-')[0]
ClassPrefix(class_id) == Split(class_id, "-")[1]

\* ClassInfo.validate, the grade checks (parser.py:113-142): "none", or the error raised
validate_grade(obj) ==
    LET class_prefix == ClassPrefix(obj.class_id)
        \* [raised, expected_grade]; "None" is Python's None
        derived ==
            IF StartsWith(class_prefix, <<"P", "K">>) THEN [raised |-> "none", grade |-> "Pre-K"]
            ELSE IF class_prefix = <<"K">> THEN [raised |-> "none", grade |-> "K"]
            ELSE IF "/" \in SeqElems(class_prefix)
            THEN IF \E g \in SeqElems(Split(class_prefix, "/")) :
                        g \notin {<<"K">>, <<"1">>, <<"2">>, <<"3">>, <<"4">>, <<"5">>}
                 THEN [raised |-> "ValidationError", grade |-> "None"]
                 ELSE [raised |-> "none", grade |-> "multiple"]
            ELSE IF class_prefix # <<>> /\ class_prefix[1] \in Digits
            THEN IF DigitValue(class_prefix[1]) > 5
                 THEN [raised |-> "ValidationError", grade |-> class_prefix[1]]
                 ELSE [raised |-> "none", grade |-> class_prefix[1]]
            ELSE [raised |-> "none", grade |-> "None"]
    IN  IF derived.raised # "none" THEN derived.raised
        ELSE IF derived.grade # obj.grade_level THEN "ValidationError"
        ELSE "none"

\* validate with the check of parser.py:145 left out
validate_without_conflict_check(obj) ==
    IF validate_grade(obj) # "none" THEN validate_grade(obj)
    ELSE IF \E d \in 1..Len(DAYS) : Len(obj.conflicts[d]) > MAX_PER_DAY THEN "ValidationError"
    ELSE "none"

\* ClassInfo.validate: "none", or the error raised
validate(obj) ==
    IF validate_grade(obj) # "none" THEN validate_grade(obj)
    ELSE IF \A d \in 1..Len(DAYS) : obj.conflicts[d] = <<>> THEN "ValidationError"
    ELSE IF \E d \in 1..Len(DAYS) : Len(obj.conflicts[d]) > MAX_PER_DAY THEN "ValidationError"
    ELSE "none"

----------------------------------------------------------------------------
(* MasterScheduleParser._calibrate_day_columns *)

Abs(x) == IF x < 0 THEN -x ELSE x

\* true division of the source, for a quotient that is exact in twelfths; the CASE
\* has no value for an inexact quotient, which stops the model checker
Div(a, b) == CASE a % b = 0 -> a \div b

\* the characters of each name of DAYS
DayChars ==
    [Monday    |-> <<"M", "o", "n", "d", "a", "y">>,
     Tuesday   |-> <<"T", "u", "e", "s", "d", "a", "y">>,
     Wednesday |-> <<"W", "e", "d", "n", "e", "s", "d", "a", "y">>,
     Thursday  |-> <<"T", "h", "u", "r", "s", "d", "a", "y">>,
     Friday    |-> <<"F", "r", "i", "d", "a", "y">>]

\* parser.py:266-271: the (day, x0) pairs one word contributes, in the order of DAYS
RECURSIVE WordDays(_, _)
WordDays(word, d) ==
    IF d > Len(DAYS) THEN <<>>
    ELSE (IF Contains(Lower(word.text), Lower(DayChars[DAYS[d]]))
          THEN <<[day |-> DAYS[d], pos |-> word.x0]>> ELSE <<>>)
         \o WordDays(word, d + 1)

\* parser.py:261-271: day_positions before the sort
RECURSIVE DayPositions(_)
DayPositions(text) ==
    IF text = <<>> THEN <<>> ELSE WordDays(Head(text), 1) \o DayPositions(Tail(text))

\* day_positions.sort(key=lambda x: x[1]): a stable sort by position
RECURSIVE InsertByPos(_, _)
InsertByPos(s, e) ==
    IF s = <<>> THEN <<e>>
    ELSE IF e.pos < Head(s).pos THEN <<e>> \o s
    ELSE <<Head(s)>> \o InsertByPos(Tail(s), e)

RECURSIVE SortByPos(_)
SortByPos(s) ==
    IF s = <<>> THEN <<>> ELSE InsertByPos(SortByPos(SubSeq(s, 1, Len(s) - 1)), s[Len(s)])

\* the loop of parser.py:289 with the test len(ordered_positions) <= idx
RECURSIVE BackfillInclusive(_, _, _)
BackfillInclusive(ordered_positions, pos, idx) ==
    IF Len(ordered_positions) <= idx
    THEN IF ordered_positions # <<>>
         THEN LET prev_pos == ordered_positions[Len(ordered_positions)]
                  step == (pos - prev_pos) \div (idx - Len(ordered_positions) + 1)
              IN  BackfillInclusive(Append(ordered_positions, prev_pos + step), pos, idx)
         ELSE LET step == IF idx = 0 THEN 0 ELSE (pos - LEFTMOST * Unit) \div idx
              IN  BackfillInclusive(
                      Append(ordered_positions, pos - step * (idx - Len(ordered_positions))),
                      pos, idx)
    ELSE ordered_positions

\* parser.py:289-299: the while loop that fills the slots before index idx (0-based)
RECURSIVE Backfill(_, _, _)
Backfill(ordered_positions, pos, idx) ==
    IF Len(ordered_positions) < idx
    THEN IF ordered_positions # <<>>
         THEN LET prev_pos == ordered_positions[Len(ordered_positions)]
                  step == Div(pos - prev_pos, idx - Len(ordered_positions) + 1)
              IN  Backfill(Append(ordered_positions, prev_pos + step), pos, idx)
         ELSE LET step == Div(pos - LEFTMOST * Unit, idx)
              IN  Backfill(Append(ordered_positions, pos - step * (idx - Len(ordered_positions))),
                           pos, idx)
    ELSE ordered_positions

\* parser.py:286-300: the loop over the sorted day_positions
RECURSIVE OrderPositions(_, _)
OrderPositions(day_positions, ordered_positions) ==
    IF day_positions = <<>> THEN ordered_positions
    ELSE LET e == Head(day_positions)
             idx == DayIndex(e.day) - 1
         IN  OrderPositions(Tail(day_positions),
                            Append(Backfill(ordered_positions, e.pos, idx), e.pos))

\* parser.py:303-310: fill in the remaining positions; ordered_positions[-2] of a
\* list of one element raises IndexError
RECURSIVE FillRemaining(_)
FillRemaining(ordered_positions) ==
    IF Len(ordered_positions) < 5
    THEN IF ordered_positions # <<>>
         THEN IF Len(ordered_positions) < 2
              THEN [raised |-> "IndexError", cols |-> ordered_positions]
              ELSE LET n == Len(ordered_positions)
                       step == ordered_positions[n] - ordered_positions[n - 1]
                   IN  FillRemaining(Append(ordered_positions, ordered_positions[n] + step))
         ELSE [raised |-> "none", cols |-> FALLBACK_COLUMNS]
    ELSE [raised |-> "none", cols |-> ordered_positions]

\* _calibrate_day_columns for a page not yet calibrated: [raised, cols], cols the
\* new value of DAY_COLUMNS
calibrate_day_columns(text) ==
    LET day_positions == DayPositions(text)
    IN  IF day_positions = <<>> THEN [raised |-> "none", cols |-> FALLBACK_COLUMNS]
        ELSE LET filled == FillRemaining(OrderPositions(SortByPos(day_positions), <<>>))
             IN  IF filled.raised # "none" THEN filled
                 ELSE [raised |-> "none", cols |-> SubSeq(filled.cols, 1, 5)]

----------------------------------------------------------------------------
(* MasterScheduleParser._group_into_lines *)

\* the order of the key (w['top'], w['x0'])
KeyLess(a, b) == a.top < b.top \/ (a.top = b.top /\ a.x0 < b.x0)

RECURSIVE InsertByKey(_, _)
InsertByKey(s, w) ==
    IF s = <<>> THEN <<w>>
    ELSE IF KeyLess(w, Head(s)) THEN <<w>> \o s
    ELSE <<Head(s)>> \o InsertByKey(Tail(s), w)

\* sorted(words, key=lambda w: (w['top'], w['x0'])): a stable sort
RECURSIVE SortWords(_)
SortWords(s) ==
    IF s = <<>> THEN <<>> ELSE InsertByKey(SortWords(SubSeq(s, 1, Len(s) - 1)), s[Len(s)])

\* parser.py:358-372; current_y is <<>> for None and <<y>> otherwise
RECURSIVE GroupWalk(_, _, _, _)
GroupWalk(sorted_words, ls, current_line, current_y) ==
    IF sorted_words = <<>>
    THEN IF current_line # <<>> THEN Append(ls, current_line) ELSE ls
    ELSE LET word == Head(sorted_words)
             y == IF current_y = <<>> THEN word.top ELSE current_y[1]
         IN  IF Abs(word.top - y) > LINE_TOLERANCE * Unit
             THEN GroupWalk(Tail(sorted_words),
                            IF current_line # <<>> THEN Append(ls, current_line) ELSE ls,
                            <<word>>, <<word.top>>)
             ELSE GroupWalk(Tail(sorted_words), ls, Append(current_line, word), <<y>>)

\* _group_into_lines
group_into_lines(words) == GroupWalk(SortWords(words), <<>>, <<>>, <<>>)

----------------------------------------------------------------------------
(* MasterScheduleParser._extract_class_info and _determine_grade_level *)

\* _determine_grade_level with the test of parser.py:409 as startswith('K')
determine_grade_level_k_prefix(class_id) ==
    IF StartsWith(class_id, <<"P", "K">>) THEN "Pre-K"
    ELSE IF StartsWith(class_id, <<"K">>) THEN "K"
    ELSE IF "/" \in SeqElems(class_id) THEN "multiple"
    ELSE IF Len(class_id) >= 2 /\ class_id[1] \in Digits /\ class_id[2] = "-" THEN class_id[1]
    ELSE "unknown"

\* _determine_grade_level
determine_grade_level(class_id) ==
    IF StartsWith(class_id, <<"P", "K">>) THEN "Pre-K"
    ELSE IF StartsWith(class_id, <<"K", "-">>) THEN "K"
    ELSE IF "/" \in SeqElems(class_id) THEN "multiple"
    ELSE IF Len(class_id) >= 2 /\ class_id[1] \in Digits /\ class_id[2] = "-" THEN class_id[1]
    ELSE "unknown"

\* _extract_class_info that builds the object without the checks of __init__
extract_class_info_unchecked(line) ==
    IF Len(line) < 2 THEN [some |-> FALSE]
    ELSE LET class_id == Strip(line[2].text)
         IN  IF ~MatchesClassPattern(class_id) THEN [some |-> FALSE]
             ELSE IF determine_grade_level(class_id) = "unknown" THEN [some |-> FALSE]
             ELSE [some |-> TRUE,
                   obj |-> [class_id |-> class_id,
                            grade_level |-> determine_grade_level(class_id),
                            conflicts |-> NoConflicts, all_conflicts |-> {}]]

\* _extract_class_info: [some |-> FALSE] is None
extract_class_info(line) ==
    IF Len(line) < 2 THEN [some |-> FALSE]
    ELSE LET class_id == Strip(line[2].text)
         IN  IF ~MatchesClassPattern(class_id) THEN [some |-> FALSE]
             ELSE LET grade_level == determine_grade_level(class_id)
                  IN  IF grade_level = "unknown" THEN [some |-> FALSE]
                      ELSE LET made == NewClassInfo(class_id, grade_level)
                           IN  IF made.raised # "none" THEN [some |-> FALSE]
                               ELSE [some |-> TRUE, obj |-> made.obj]

----------------------------------------------------------------------------
(* MasterScheduleParser._extract_conflicts *)

Max(a, b) == IF a > b THEN a ELSE b

\* the loop of parser.py:446 that stops at the first column within the tolerance
RECURSIVE ColumnScanFirst(_, _, _, _)
ColumnScanFirst(cols, idx, x_pos, best) ==
    IF idx > Len(cols) THEN best
    ELSE LET distance == Abs(x_pos - cols[idx])
         IN  IF best.inf /\ distance < COLUMN_TOLERANCE * Unit
             THEN [day_idx |-> idx, inf |-> FALSE, min_distance |-> distance]
             ELSE ColumnScanFirst(cols, idx + 1, x_pos, best)

\* parser.py:444-450: best is [day_idx, inf, min_distance]; day_idx is an index of
\* DAYS (1-based) or 0 for None, and inf says that min_distance is float('inf')
RECURSIVE ColumnScan(_, _, _, _)
ColumnScan(cols, idx, x_pos, best) ==
    IF idx > Len(cols) THEN best
    ELSE LET distance == Abs(x_pos - cols[idx])
         IN  ColumnScan(cols, idx + 1, x_pos,
                        IF (best.inf \/ distance < best.min_distance)
                           /\ distance < COLUMN_TOLERANCE * Unit
                        THEN [day_idx |-> idx, inf |-> FALSE, min_distance |-> distance]
                        ELSE best)

find_day_column(x_pos, cols) ==
    ColumnScan(cols, 1, x_pos, [day_idx |-> 0, inf |-> TRUE, min_distance |-> 0]).day_idx

\* parser.py:457-464: for j in range(i - 1, stop, -1); j is 0-based.  The value is
\* the subject, <<>> when none is found (Python's None and '' are both false at :466)
RECURSIVE SubjectScan(_, _, _)
SubjectScan(line, j, stop) ==
    IF j <= stop THEN <<>>
    ELSE IF j >= 0 /\ j < Len(line) /\ ~MatchAllDigits(Lower(line[j + 1].text))
         THEN Lower(line[j + 1].text)
         ELSE SubjectScan(line, j - 1, stop)

\* parser.py:434-475: the while loop; i is 0-based, acc is [raised, obj]
RECURSIVE ConflictLoop(_, _, _, _, _)
ConflictLoop(line, i, start_idx, acc, cols) ==
    IF i >= Len(line) \/ acc.raised # "none" THEN acc
    ELSE LET word == line[i + 1]
             period_match == PeriodSearch(word.text, 1)
             day_idx == find_day_column(word.x0, cols)
         IN  IF period_match = 0 \/ day_idx = 0
             THEN ConflictLoop(line, i + 1, start_idx, acc, cols)
             ELSE LET day == DAYS[day_idx]
                      period == DigitValue(word.text[period_match])
                      subject == SubjectScan(line, i - 1, Max(start_idx - 1, i - 3))
                  IN  ConflictLoop(line, i + 1, start_idx,
                                   IF subject # <<>>
                                   THEN add_conflict(acc.obj, day, period)
                                   ELSE add_conflict(acc.obj, day, period),
                                   cols)

\* _extract_conflicts: [raised, obj], obj the ClassInfo after the call
extract_conflicts(line, class_info, continuation_line, cols) ==
    IF line = <<>> \/ cols = <<>> THEN [raised |-> "none", obj |-> class_info]
    ELSE LET start_idx == IF ~continuation_line THEN 2 ELSE 0
         IN  ConflictLoop(line, start_idx, start_idx, [raised |-> "none", obj |-> class_info], cols)

----------------------------------------------------------------------------
(* MasterScheduleParser.parse, _process_page and _validate_results *)

DictKeys(d) == {d[i].key : i \in 1..Len(d)}

\* d[key] = ref
DictSet(d, key, ref) ==
    IF key \in DictKeys(d)
    THEN [i \in 1..Len(d) |-> IF d[i].key = key THEN [key |-> key, ref |-> ref] ELSE d[i]]
    ELSE Append(d, [key |-> key, ref |-> ref])

\* parser.py:206-207: the first page calibrates the columns
Calibrate ==
    /\ pc = "page_start"
    /\ DAY_COLUMNS = <<>>
    /\ LET c == calibrate_day_columns(pages[pageNo])
       IN  IF c.raised = "none"
           THEN DAY_COLUMNS' = c.cols /\ UNCHANGED <<pc, result>>
           ELSE pc' = "failed" /\ result' = c.raised /\ UNCHANGED DAY_COLUMNS
    /\ UNCHANGED <<pages, pageNo, lines, lineNo, current_class, objs, classes, calls>>

\* parser.py:322-333: _process_page up to its loop
BeginPage ==
    /\ pc = "page_start"
    /\ DAY_COLUMNS # <<>>
    /\ lines' = group_into_lines(pages[pageNo])
    /\ lineNo' = 1
    /\ current_class' = 0
    /\ pc' = "lines"
    /\ UNCHANGED <<pages, pageNo, DAY_COLUMNS, objs, classes, result, calls>>

\* parser.py:335-347: one iteration of the loop over the lines
ProcessLine ==
    /\ pc = "lines"
    /\ lineNo <= Len(lines)
    /\ LET line == lines[lineNo]
           class_info == extract_class_info(line)
           created == IF class_info.some THEN Append(objs, class_info.obj) ELSE objs
           cur == IF class_info.some THEN Len(created) ELSE current_class
           continuation_line == ~class_info.some
           ext == IF cur # 0
                  THEN extract_conflicts(line, created[cur], continuation_line, DAY_COLUMNS)
                  ELSE [raised |-> "none"]
       IN  /\ current_class' = cur
           /\ classes' = IF class_info.some
                         THEN DictSet(classes, class_info.obj.class_id, cur)
                         ELSE classes
           /\ objs' = IF cur # 0 THEN [created EXCEPT ![cur] = ext.obj] ELSE created
           /\ IF ext.raised = "none"
              THEN lineNo' = lineNo + 1 /\ UNCHANGED <<pc, result>>
              ELSE pc' = "failed" /\ result' = ext.raised /\ UNCHANGED lineNo
    /\ UNCHANGED <<pages, pageNo, DAY_COLUMNS, lines, calls>>

\* the end of _process_page and the next iteration of parser.py:204
EndPage ==
    /\ pc = "lines"
    /\ lineNo > Len(lines)
    /\ pageNo' = pageNo + 1
    /\ pc' = IF pageNo + 1 <= Len(pages) THEN "page_start" ELSE "validate"
    /\ UNCHANGED <<pages, DAY_COLUMNS, lines, lineNo, current_class, objs, classes, result, calls>>

\* _validate_results: "none", or the error raised
validate_results(d, heap) ==
    IF \E i, j \in 1..Len(d) : i < j /\ d[i].key = d[j].key THEN "ValidationError"
    ELSE IF \E i \in 1..Len(d) : validate(heap[d[i].ref]) # "none" THEN "ValidationError"
    ELSE "none"

\* parser.py:216-217
ValidateResults ==
    /\ pc = "validate"
    /\ pc' = "done"
    /\ result' = IF validate_results(classes, objs) = "none"
                 THEN "returned" ELSE validate_results(classes, objs)
    /\ UNCHANGED <<pages, pageNo, DAY_COLUMNS, lines, lineNo, current_class, objs, classes, calls>>

Next == Calibrate \/ BeginPage \/ ProcessLine \/ EndPage \/ ValidateResults

\* the state of a MasterScheduleParser after __init__, for the document doc
InitParse(doc) ==
    /\ pages = doc
    /\ pc = "page_start"
    /\ pageNo = 1
    /\ DAY_COLUMNS = <<>>
    /\ lines = <<>>
    /\ lineNo = 1
    /\ current_class = 0
    /\ objs = <<>>
    /\ classes = <<>>
    /\ result = "running"
    /\ calls = [n |-> 0, pairs |-> {}]

----------------------------------------------------------------------------
(* Documents *)

\* a word of extract_words at whole units x and top
Word(text, x, top) == [text |-> text, x0 |-> x * Unit, top |-> top * Unit]

\* the x of each canonical header, in units
CanonicalX == <<150, 250, 350, 450, 550>>

\* the header words of a page, at top 50: xs[d] is the x of the header of DAYS[d], 0 for no header
RECURSIVE HeaderWords(_, _)
HeaderWords(xs, d) ==
    IF d > Len(DAYS) THEN <<>>
    ELSE (IF xs[d] # 0 THEN <<Word(DayChars[DAYS[d]], xs[d], 50)>> ELSE <<>>)
         \o HeaderWords(xs, d + 1)

NoHeader == [d \in 1..5 |-> 0]
MondayOnly == [d \in 1..5 |-> IF d = 1 THEN CanonicalX[1] ELSE 0]

\* the tokens of the rows a page of the documents of Spec is made of: [text, x]
RowTemplates ==
    << \* opens PK207, Tech 2 under Tuesday
       << [text |-> <<"0", "0", "1">>, x |-> 20], [text |-> <<"P", "K", "2", "0", "7">>, x |-> 60],
          [text |-> <<"T", "e", "c", "h">>, x |-> 230], [text |-> <<"2">>, x |-> 250] >>,
       \* a continuation, Lib 3 under Monday
       << [text |-> <<"L", "i", "b">>, x |-> 130], [text |-> <<"3">>, x |-> 150] >>,
       \* the second token has the shape of a class identifier and the grade 9
       << [text |-> <<"0", "0", "2">>, x |-> 60], [text |-> <<"9", "-", "9", "9", "9">>, x |-> 110],
          [text |-> <<"A", "r", "t">>, x |-> 330], [text |-> <<"4">>, x |-> 350] >>,
       \* opens K-101 with no conflict
       << [text |-> <<"0", "0", "3">>, x |-> 20], [text |-> <<"K", "-", "1", "0", "1">>, x |-> 60] >>,
       \* opens PK207 again, Art 5 under Thursday
       << [text |-> <<"0", "0", "4">>, x |-> 20], [text |-> <<"P", "K", "2", "0", "7">>, x |-> 60],
          [text |-> <<"A", "r", "t">>, x |-> 430], [text |-> <<"5">>, x |-> 450] >> >>

RowWords(row, top) == [i \in 1..Len(row) |-> Word(row[i].text, row[i].x, top)]

\* the pages of the rows rows[k], rows[k + 1], ... (indices of RowTemplates) from top
\* to bottom; breaks[k] says that rows[k] is the first row of a new page, and acc
\* holds the pages so far
RECURSIVE Paginate(_, _, _, _)
Paginate(rows, breaks, k, acc) ==
    IF k > Len(rows) THEN acc
    ELSE LET words == RowWords(RowTemplates[rows[k]], 100 + 20 * k)
         IN  Paginate(rows, breaks, k + 1,
                      IF breaks[k] THEN Append(acc, words)
                      ELSE [acc EXCEPT ![Len(acc)] = @ \o words])

MaxRows == 3

\* documents of 1..MaxRows rows with a page break before any row but the first; the
\* first page has no header, the five canonical headers, or the header Monday alone
Init ==
    \E h \in {NoHeader, CanonicalX, MondayOnly}, k \in 1..MaxRows :
        \E rows \in [1..k -> 1..Len(RowTemplates)], breaks \in [1..k -> BOOLEAN] :
            /\ ~breaks[1]
            /\ InitParse(Paginate(rows, breaks, 1, <<HeaderWords(h, 1)>>))

Spec == Init /\ [][Next]_vars

----------------------------------------------------------------------------
(* Properties of parse() *)

\* the line opens a record: _extract_class_info returns a ClassInfo
OpensRecord(line) == extract_class_info(line).some

\* the class_id of the record a line opens
OpenedId(line) == Strip(line[2].text)

\* the lines of the document, page by page
DocLines == [p \in 1..Len(pages) |-> group_into_lines(pages[p])]

\* two record-opening lines of the document carry the same classId
DuplicateOpeners ==
    \E p, q \in 1..Len(pages) :
        \E i \in 1..Len(DocLines[p]), j \in 1..Len(DocLines[q]) :
            /\ p < q \/ (p = q /\ i < j)
            /\ OpensRecord(DocLines[p][i]) /\ OpensRecord(DocLines[q][j])
            /\ OpenedId(DocLines[p][i]) = OpenedId(DocLines[q][j])

\* the (day, period) pairs of the period tokens of a line from the 0-based token index
\* start_idx on, each under the day column its x0 falls to
LineConflicts(line, start_idx, cols) ==
    { <<DAYS[find_day_column(line[i + 1].x0, cols)],
        DigitValue(line[i + 1].text[PeriodSearch(line[i + 1].text, 1)])>> :
      i \in { k \in start_idx..(Len(line) - 1) :
                /\ PeriodSearch(line[k + 1].text, 1) # 0
                /\ find_day_column(line[k + 1].x0, cols) # 0 } }

\* the record holds the pair, in its per-day list and in its dedup set
HasConflict(obj, pair) ==
    pair \in obj.all_conflicts /\ pair[2] \in SeqElems(obj.conflicts[DayIndex(pair[1])])

HasNoConflict(obj) == \A d \in 1..Len(DAYS) : obj.conflicts[d] = <<>>

\* the loop of _process_page is about to process lines[lineNo]
AtLine == pc = "lines" /\ lineNo <= Len(lines)

\* C1: if two record-opening lines anywhere in the document carry the same classId,
\* parse() fails with a ValidationError at finalization (it never returns a result in
\* which the later record has replaced the earlier one).
C1_DuplicateIdRejected ==
    (pc = "done" /\ DuplicateOpeners) => result = "ValidationError"

\* C3: once a record is opened, every following line that does not open a record, on
\* the same page or a later one, has its conflicts added to that record (the record
\* created last): no such line is dropped while an earlier record-opening line exists.
C3_ContinuationKept ==
    [][(AtLine /\ ~OpensRecord(lines[lineNo]) /\ objs # <<>>)
        => \A pair \in LineConflicts(lines[lineNo], 0, DAY_COLUMNS) :
               HasConflict(objs'[Len(objs)], pair)]_vars

\* C3 within one page: a line that does not open a record has its conflicts added to
\* the record opened last on the same page.
C3_ContinuationKeptOnPage ==
    [][(AtLine /\ ~OpensRecord(lines[lineNo]) /\ current_class # 0)
        => \A pair \in LineConflicts(lines[lineNo], 0, DAY_COLUMNS) :
               HasConflict(objs'[current_class], pair)]_vars

\* the second token has the shape of a class identifier and its grade is undetermined
\* or outside the grade enum
BadGradeLine(line) ==
    /\ Len(line) >= 2
    /\ MatchesClassPattern(Strip(line[2].text))
    /\ determine_grade_level(Strip(line[2].text)) \notin VALID_GRADES

\* C6: a line whose second token matches a class-identifier pattern but whose grade is
\* undetermined or outside the grade enum never raises and never registers a record;
\* with no active record nothing is recorded, and with an active record the line is a
\* continuation of it from token index 0: the record gains exactly the conflicts of
\* all the line's period tokens.
C6_BadGradeIsContinuation ==
    [][(AtLine /\ BadGradeLine(lines[lineNo]))
        => /\ result' = result /\ pc' = pc /\ lineNo' = lineNo + 1
           /\ classes' = classes
           /\ Len(objs') = Len(objs)
           /\ current_class' = current_class
           /\ \A r \in 1..Len(objs) :
                 IF r = current_class
                 THEN /\ objs'[r].all_conflicts =
                            objs[r].all_conflicts
                                \cup LineConflicts(lines[lineNo], 0, DAY_COLUMNS)
                      /\ \A pair \in objs'[r].all_conflicts : HasConflict(objs'[r], pair)
                 ELSE objs'[r] = objs[r]]_vars

\* C6 witness: a bad-grade line has just been processed under an active record, which
\* holds the conflict of the line's first token.
C6_Witness ==
    /\ pc = "lines" /\ lineNo > 1 /\ current_class # 0
    /\ BadGradeLine(lines[lineNo - 1])
    /\ PeriodSearch(lines[lineNo - 1][1].text, 1) # 0
    /\ LineConflicts(lines[lineNo - 1], 0, DAY_COLUMNS)
         # LineConflicts(lines[lineNo - 1], 2, DAY_COLUMNS)
    /\ \A pair \in LineConflicts(lines[lineNo - 1], 0, DAY_COLUMNS) :
           HasConflict(objs[current_class], pair)

\* C7: validation runs only after the last page; if a record of the result then has no
\* conflict on any weekday, parse() raises ValidationError instead of returning; so
\* whenever parse() returns, every returned record has at least one conflict.
C7_EmptyRecordRejected ==
    /\ result = "ValidationError" => (pc = "done" /\ pageNo > Len(pages))
    /\ (pc = "done" /\ \E i \in 1..Len(classes) : HasNoConflict(objs[classes[i].ref]))
          => result = "ValidationError"
    /\ result = "returned"
          => (pc = "done" /\ \A i \in 1..Len(classes) : ~HasNoConflict(objs[classes[i].ref]))

\* C7 witness: parse() has raised ValidationError over a result that holds a record
\* without conflicts beside a record with conflicts.
C7_Witness ==
    /\ pc = "done" /\ result = "ValidationError"
    /\ \E i \in 1..Len(classes) : HasNoConflict(objs[classes[i].ref])
    /\ \E i \in 1..Len(classes) : ~HasNoConflict(objs[classes[i].ref])

----------------------------------------------------------------------------
(* Column calibration: documents of one page of header words *)

\* the x of the additional header words, in units
ExtraXs == {100, 350, 550}

MaxExtraHeaders == 1

ExtraHeaderChoices ==
    UNION {[1..k -> (1..Len(DAYS)) \X ExtraXs] : k \in 0..MaxExtraHeaders}

ExtraHeaderWords(extra) ==
    [i \in 1..Len(extra) |-> Word(DayChars[DAYS[extra[i][1]]], extra[i][2], 50)]

\* a first page of header words: for each weekday no header, the header at its
\* canonical x or 60 units to the left of it, and then up to MaxExtraHeaders more
\* header words of any weekday
InitCal ==
    \E xs \in [1..Len(DAYS) -> {0, 1, 2}], extra \in ExtraHeaderChoices :
        InitParse(<< HeaderWords([d \in 1..Len(DAYS) |->
                                     CASE xs[d] = 0 -> 0
                                       [] xs[d] = 1 -> CanonicalX[d]
                                       [] xs[d] = 2 -> CanonicalX[d] - 60], 1)
                     \o ExtraHeaderWords(extra) >>)

SpecCal == InitCal /\ [][Next]_vars

\* the first page has been calibrated, or the calibration has raised
CalibrationRan == ~(pc = "page_start" /\ pageNo = 1 /\ DAY_COLUMNS = <<>>)

\* the words of the first page whose lowercased text contains the name of DAYS[d]
HeadersOf(d) ==
    { i \in 1..Len(pages[1]) : Contains(Lower(pages[1][i].text), Lower(DayChars[DAYS[d]])) }

TheHeaderOf(d) == pages[1][CHOOSE i \in HeadersOf(d) : TRUE]

\* exactly one header word for each weekday, and their x0 increase in canonical order
CanonicalHeaders ==
    /\ \A d \in 1..Len(DAYS) : Cardinality(HeadersOf(d)) = 1
    /\ \A d, e \in 1..Len(DAYS) : d # e => HeadersOf(d) # HeadersOf(e)
    /\ \A d \in 1..(Len(DAYS) - 1) : TheHeaderOf(d).x0 < TheHeaderOf(d + 1).x0

\* C2: for every first-page word set, column calibration raises no exception and leaves
\* exactly 5 x-coordinates.
C2_CalibrationTotal ==
    CalibrationRan => (result # "IndexError" /\ Len(DAY_COLUMNS) = 5)

\* C8: with exactly one header word per weekday at x0 increasing in canonical order,
\* the calibrated columns are exactly those five x0, in that order.
C8_CanonicalHeadersLiteral ==
    (CalibrationRan /\ CanonicalHeaders)
        => /\ result # "IndexError"
           /\ DAY_COLUMNS = [d \in 1..Len(DAYS) |-> TheHeaderOf(d).x0]

\* C8 witness: five canonical headers, not all at the fallback positions, calibrated.
C8_Witness ==
    /\ CanonicalHeaders
    /\ Len(DAY_COLUMNS) = 5
    /\ DAY_COLUMNS # FALLBACK_COLUMNS
    /\ DAY_COLUMNS[2] = TheHeaderOf(2).x0

\* C9: for every set of day-header candidates the calibrated column list is strictly
\* ascending.
C9_ColumnsAscending ==
    \A i \in 1..(Len(DAY_COLUMNS) - 1) : DAY_COLUMNS[i] < DAY_COLUMNS[i + 1]

----------------------------------------------------------------------------
(* Line grouping: documents of one page of words at close tops *)

LineTops == {100, 103, 106, 112}
LineXs == {50, 100, 150}

MaxWords == 3

\* a first page without header of up to MaxWords words "3", in any extraction order
InitLines ==
    \E k \in 0..MaxWords :
        \E ws \in [1..k -> LineXs \X LineTops] :
            InitParse(<< [i \in 1..k |-> Word(<<"3">>, ws[i][1], ws[i][2])] >>)

SpecLines == InitLines /\ [][Next]_vars

\* C4: each line returned by the line grouper is ordered left-to-right: within one
\* line the x0 are non-decreasing, also when the tops differ within the tolerance.
C4_LinesLeftToRight ==
    \A l \in 1..Len(lines) :
        \A i \in 1..(Len(lines[l]) - 1) : lines[l][i].x0 <= lines[l][i + 1].x0

----------------------------------------------------------------------------
(* ClassInfo.add_conflict: a record and a sequence of calls *)

MaxCalls == 3

\* a ClassInfo after __init__, before any call of add_conflict
InitRec ==
    /\ pages = <<>>
    /\ pc = "record"
    /\ pageNo = 1
    /\ DAY_COLUMNS = <<>>
    /\ lines = <<>>
    /\ lineNo = 1
    /\ current_class = 0
    /\ objs = <<NewClassInfo(<<"P", "K", "2", "0", "7">>, "Pre-K").obj>>
    /\ classes = <<>>
    /\ result = "running"
    /\ calls = [n |-> 0, pairs |-> {}]

\* one call objs[1].add_conflict(day, period)
AddConflict ==
    /\ pc = "record"
    /\ calls.n < MaxCalls
    /\ \E d \in 1..Len(DAYS), period \in VALID_PERIODS :
          LET r == add_conflict(objs[1], DAYS[d], period)
          IN  /\ objs' = <<r.obj>>
              /\ result' = IF r.raised = "none" THEN result ELSE r.raised
              /\ calls' = [n |-> calls.n + 1, pairs |-> calls.pairs \cup {<<DAYS[d], period>>}]
    /\ UNCHANGED <<pages, pc, pageNo, DAY_COLUMNS, lines, lineNo, current_class, classes>>

SpecRec == InitRec /\ [][AddConflict]_vars

StrictlyAscending(s) == \A i \in 1..(Len(s) - 1) : s[i] < s[i + 1]

----------------------------------------------------------------------------
(* Conflict extraction: documents of one page with one line of varied tokens *)

TokenTexts == { <<"0", "0", "1">>, <<"P", "K", "2", "0", "7">>, <<"L", "i", "b">>, <<"3">> }

\* the x of the tokens, in units, in increasing order
TokenXs == <<40, 110, 200, 340, 700>>

MaxTokens == 3

\* the line of the tokens texts[1], texts[2], ... at the places at[1] < at[2] < ... of TokenXs
TokenLine(texts, at, top) ==
    [i \in 1..Len(texts) |-> Word(texts[i], TokenXs[at[i]], top)]

\* the header Tuesday alone at 190: columns 40 apart
TuesdayAt190 == [d \in 1..5 |-> IF d = 2 THEN 190 ELSE 0]
\* the headers Monday and Wednesday both at 350: the last three columns coincide
MondayWednesdayAt350 == [d \in 1..5 |-> IF d \in {1, 3} THEN 350 ELSE 0]

\* a first page: a header, then optionally the row that opens K-101, then one line of
\* up to MaxTokens tokens from left to right
InitExtract ==
    \E h \in {NoHeader, TuesdayAt190, MondayWednesdayAt350}, opened \in BOOLEAN,
       k \in 0..MaxTokens :
        \E texts \in [1..k -> TokenTexts], at \in [1..k -> 1..Len(TokenXs)] :
            /\ \A i \in 1..(k - 1) : at[i] < at[i + 1]
            /\ InitParse(<< HeaderWords(h, 1)
                            \o (IF opened THEN RowWords(RowTemplates[4], 100) ELSE <<>>)
                            \o TokenLine(texts, at, 120) >>)

SpecExtract == InitExtract /\ [][Next]_vars

\* the least distance from x to a column
MinDistance(x, cols) ==
    CHOOSE m \in {Abs(x - cols[d]) : d \in 1..Len(cols)} :
        \A d \in 1..Len(cols) : m <= Abs(x - cols[d])

\* the weekdays (indices of DAYS) whose column is nearest to x, none when the
\* nearest column is COLUMN_TOLERANCE units or more away
NearestDays(x, cols) ==
    { d \in 1..Len(cols) :
        /\ Abs(x - cols[d]) = MinDistance(x, cols)
        /\ Abs(x - cols[d]) < COLUMN_TOLERANCE * Unit }

\* the 1-based places of the period tokens of a line from the 0-based index start_idx on
PeriodTokens(line, start_idx) ==
    { i \in (start_idx + 1)..Len(line) : PeriodSearch(line[i].text, 1) # 0 }

PeriodOf(word) == DigitValue(word.text[PeriodSearch(word.text, 1)])

\* the ClassInfo the step of ProcessLine at lines[lineNo] extracts into, before the step
RecordBefore ==
    IF OpensRecord(lines[lineNo])
    THEN extract_class_info(lines[lineNo]).obj
    ELSE objs[current_class]

StartIndex == IF OpensRecord(lines[lineNo]) THEN 2 ELSE 0

\* C10: for every period token at or after the line's start index (2 on a
\* record-opening line, 0 on a continuation line) the conflict is recorded on a weekday
\* whose column is at the least distance from the token's x0, provided that distance is
\* under 100; nothing else is added, so tokens with every column 100 or more away leave
\* the record unchanged; no error is raised.
C10_NearestColumnWithinTolerance ==
    [][(AtLine /\ (OpensRecord(lines[lineNo]) \/ current_class # 0))
        => LET line == lines[lineNo]
               tokens == PeriodTokens(line, StartIndex)
               after == objs'[current_class']
           IN  /\ result' = result /\ pc' = pc
               /\ \A i \in tokens :
                     NearestDays(line[i].x0, DAY_COLUMNS) # {}
                        => \E d \in NearestDays(line[i].x0, DAY_COLUMNS) :
                               HasConflict(after, <<DAYS[d], PeriodOf(line[i])>>)
               /\ \A pair \in after.all_conflicts \ RecordBefore.all_conflicts :
                     \E i \in tokens :
                        /\ pair[2] = PeriodOf(line[i])
                        /\ DayIndex(pair[1]) \in NearestDays(line[i].x0, DAY_COLUMNS)
               /\ \A d \in 1..Len(DAYS) :
                     SeqElems(after.conflicts[d])
                        = {pair[2] : pair \in {q \in after.all_conflicts : q[1] = DAYS[d]}}
               /\ RecordBefore.all_conflicts \subseteq after.all_conflicts]_vars

\* C10 witness: a line has just been processed into the active record; one of its
\* period tokens was recorded under a column that is not the first one within the
\* tolerance, and another had every column 100 or more away and left no conflict.
C10_Witness ==
    /\ pc = "lines" /\ lineNo > 1 /\ current_class # 0
    /\ LET line == lines[lineNo - 1]
           start_idx == IF OpensRecord(line) THEN 2 ELSE 0
           tokens == PeriodTokens(line, start_idx)
       IN  /\ \E i \in tokens :
                 \E d \in NearestDays(line[i].x0, DAY_COLUMNS) :
                    /\ HasConflict(objs[current_class], <<DAYS[d], PeriodOf(line[i])>>)
                    /\ \E e \in 1..(d - 1) :
                          Abs(line[i].x0 - DAY_COLUMNS[e]) < COLUMN_TOLERANCE * Unit
           /\ \E i \in tokens :
                 /\ NearestDays(line[i].x0, DAY_COLUMNS) = {}
                 /\ \A d \in 1..Len(DAYS) :
                       ~HasConflict(objs[current_class], <<DAYS[d], PeriodOf(line[i])>>)

----------------------------------------------------------------------------
(* Record detection and finalization: documents of one row with a varied identifier *)

Rooms == { <<"1", "0", "1">>, <<"9", "9", "9">> }

\* the second tokens of the row: every identifier of the four patterns over the
\* rooms of Rooms, and identifiers that match none
CandidateIds ==
    {<<"P", "K">> \o room : room \in Rooms}
        \cup {<<"K", "-">> \o room : room \in Rooms}
        \cup {<<d, "-">> \o room : d \in Digits, room \in Rooms}
        \cup {<<a, "/", b, "/", c, "-">> \o room :
                a \in Digits \cup {"K"}, b \in Digits \cup {"K"}, c \in Digits \cup {"K"},
                room \in Rooms}
        \cup {<<"K", "/", "1", "-">> \o room : room \in Rooms}
        \cup {<<"P", "-">> \o room : room \in Rooms}

\* a first page without header of one row: a class number, an identifier and,
\* optionally, Lib 3 under Monday
InitIds ==
    \E id \in CandidateIds, conflict \in BOOLEAN :
        InitParse(<< << Word(<<"0", "0", "1">>, 20, 100), Word(id, 60, 100) >>
                     \o (IF conflict
                         THEN << Word(<<"L", "i", "b">>, 130, 100), Word(<<"3">>, 150, 100) >>
                         ELSE <<>>) >>)

SpecIds == InitIds /\ [][Next]_vars

\* a multiple-grade identifier with a component that is neither K nor a digit 1..5
BadMultiple(class_id) ==
    /\ MatchMultiple(class_id)
    /\ \E i \in {1, 3, 5} : class_id[i] \notin {"K", "1", "2", "3", "4", "5"}

\* C11: every record the detector creates passes the grade checks of validate(): the
\* grade derived from the classId prefix equals the stored gradeLevel and no
\* grade-related ValidationError is raised, so that parse() fails at finalization only
\* over a record without conflicts.
C11_DetectedPassGradeChecks ==
    /\ \A r \in 1..Len(objs) : validate_grade(objs[r]) = "none"
    /\ (pc = "done" /\ result = "ValidationError")
          => \E i \in 1..Len(classes) : HasNoConflict(objs[classes[i].ref])

\* C11 amended: the same for every record the detector creates whose classId is not a
\* multiple-grade identifier with a component outside K, 1..5; the detector accepts
\* such an identifier too, and validate() raises a grade ValidationError for it.
C11_DetectedPassGradeChecksButBadMultiple ==
    /\ \A r \in 1..Len(objs) :
          IF BadMultiple(objs[r].class_id)
          THEN validate_grade(objs[r]) = "ValidationError"
          ELSE validate_grade(objs[r]) = "none"
    /\ (pc = "done" /\ result = "ValidationError"
          /\ \A i \in 1..Len(classes) : ~BadMultiple(classes[i].key))
          => \E i \in 1..Len(classes) : HasNoConflict(objs[classes[i].ref])

\* C11 witness: parse() has returned a multiple-grade record that the detector created
\* from an identifier with the component K.
C11_Witness ==
    /\ pc = "done" /\ result = "returned"
    /\ \E i \in 1..Len(classes) :
          /\ objs[classes[i].ref].grade_level = "multiple"
          /\ classes[i].key[1] = "K"
          /\ validate_grade(objs[classes[i].ref]) = "none"

====
